---- MODULE Spec2Model ----
(***************************************************************************)
(* Balance reporting of the property-management API: the calendar helpers  *)
(* and report builders of ReportService (db/report.py) over the in-memory  *)
(* repositories (db/property.py, unit.py, tenant.py, lease.py,             *)
(* payment.py).  Dates are records [year, month, day]; money amounts are   *)
(* whole currency units; Python's None is the integer None where an id is  *)
(* optional and the record NotFound where a report or a record is.         *)
(***************************************************************************)
EXTENDS Integers, Sequences, FiniteSets, TLC

VARIABLES
    today,          \* the value date.today() returns
    properties,     \* PropertyRepository.properties
    units,          \* UnitRepository.units
    tenants,        \* TenantRepository.tenants
    leases,         \* LeaseRepository.leases
    lease_tenants,  \* LeaseRepository.lease_tenants (junction rows)
    payments,       \* PaymentRepository.payments
    ops,            \* number of repository writes performed so far
    last            \* the last call: its operation, arguments and result

vars == <<today, properties, units, tenants, leases, lease_tenants, payments, ops, last>>

repos == <<properties, units, tenants, leases, lease_tenants, payments>>

----------------------------------------------------------------------------
(* Bounds of the model *)

\* number of calendar years the calendar helpers' inputs are drawn from
NumYears == 2

\* number of successful repository writes explored from the sample data
MaxOps == 2

\* first year of the calendar helpers' inputs (the unit tests' dates)
FirstYear == 2022

----------------------------------------------------------------------------
(* datetime.date *)

None == -1

NotFound == [kind |-> "None"]

Date(y, m, d) == [year |-> y, month |-> m, day |-> d]

IsLeap(y) == (y % 4 = 0 /\ y % 100 # 0) \/ y % 400 = 0

DaysInMonth(y, m) ==
    IF m \in {1, 3, 5, 7, 8, 10, 12} THEN 31
    ELSE IF m \in {4, 6, 9, 11} THEN 30
    ELSE IF IsLeap(y) THEN 29 ELSE 28

\* date(y, m, d) raises ValueError exactly when this is false
IsValidDate(y, m, d) == m \in 1..12 /\ d >= 1 /\ d <= DaysInMonth(y, m)

DateLT(a, b) ==
    \/ a.year < b.year
    \/ a.year = b.year /\ a.month < b.month
    \/ a.year = b.year /\ a.month = b.month /\ a.day < b.day

DateLE(a, b) == a = b \/ DateLT(a, b)

\* min(a, b) of two dates
DateMin(a, b) == IF DateLT(b, a) THEN b ELSE a

Years == FirstYear .. (FirstYear + NumYears - 1)

\* the valid dates of Years whose day of month is in days
DatesOn(days) ==
    {dt \in [year : Years, month : 1..12, day : days] :
        IsValidDate(dt.year, dt.month, dt.day)}

SeqToSet(s) == {s[i] : i \in 1..Len(s)}

----------------------------------------------------------------------------
(* ReportService: calendar helpers *)

month_names ==
    <<"January", "February", "March", "April", "May", "June", "July",
      "August", "September", "October", "November", "December">>

\* month_names[month - 1] of a 0-based list
get_month_name(month) == month_names[(month - 1) + 1]

calculate_months_between_noclamp(start_date, end_date) ==
    LET months == (end_date.year - start_date.year) * 12
                      + end_date.month - start_date.month
    IN  IF DateLT(today, start_date) THEN 0
        ELSE IF end_date.day >= start_date.day THEN months + 1 ELSE months

calculate_months_between_endcheck(start_date, end_date) ==
    LET actual_end == DateMin(end_date, today)
        months == (actual_end.year - start_date.year) * 12
                      + actual_end.month - start_date.month
    IN  IF DateLT(end_date, start_date) THEN 0
        ELSE IF actual_end.day >= start_date.day THEN months + 1 ELSE months

calculate_months_between(start_date, end_date) ==
    LET actual_end == DateMin(end_date, today)
        months == (actual_end.year - start_date.year) * 12
                      + actual_end.month - start_date.month
    IN  IF DateLT(today, start_date) THEN 0
        ELSE IF actual_end.day >= start_date.day THEN months + 1 ELSE months

\* paid_months: the (year, month) pairs that hold a payment
PaidMonthsAnyYear(pays) ==
    {<<y, pays[i].payment_date.month>> : y \in Years, i \in 1..Len(pays)}

PaidMonths(pays) ==
    {<<pays[i].payment_date.year, pays[i].payment_date.month>> : i \in 1..Len(pays)}

\* "Move to next month": the date the walk continues from
NextMonthDateStay(current_date) ==
    IF current_date.month = 12
    THEN Date(current_date.year + 1, 1, 1)
    ELSE LET next_month == current_date.month + 1
             next_year == current_date.year
         IN  IF IsValidDate(next_year, next_month, current_date.day)
             THEN Date(next_year, next_month, current_date.day)
             ELSE IF next_month = 2
                  THEN Date(next_year, current_date.month, 28)
                  ELSE Date(next_year, current_date.month, 30)

NextMonthDate(current_date) ==
    IF current_date.month = 12
    THEN Date(current_date.year + 1, 1, 1)
    ELSE LET next_month == current_date.month + 1
             next_year == current_date.year
         IN  IF IsValidDate(next_year, next_month, current_date.day)
             THEN Date(next_year, next_month, current_date.day)
             ELSE IF next_month = 2
                  THEN Date(next_year, next_month, 28)
                  ELSE Date(next_year, next_month, 30)

\* the while loop: expected_months, from current_date on
RECURSIVE ExpectedMonths(_, _)
ExpectedMonths(current_date, expected_months) ==
    IF DateLE(current_date, today)
    THEN ExpectedMonths(NextMonthDate(current_date),
                        Append(expected_months, <<current_date.year, current_date.month>>))
    ELSE expected_months

MissingPaymentPeriod(year, month, month_name, amount_due) ==
    [year |-> year, month |-> month, month_name |-> month_name, amount_due |-> amount_due]

identify_missing_payment_periods(lease_start_date, monthly_rent, pays) ==
    LET paid_months == PaidMonths(pays)
        expected_months == ExpectedMonths(lease_start_date, <<>>)
        missing == SelectSeq(expected_months, LAMBDA ym : ym \notin paid_months)
    IN  [i \in 1..Len(missing) |->
            MissingPaymentPeriod(missing[i][1], missing[i][2],
                                 get_month_name(missing[i][2]), monthly_rent)]

----------------------------------------------------------------------------
(* The repositories after construction (the sample data) *)

InitProperties ==
    << [id |-> 1, name |-> "Sunset Apartments"],
       [id |-> 2, name |-> "Ocean View Condos"] >>

InitUnits ==
    << [unit_id |-> 1, unit_name |-> "101", property_id |-> 1],
       [unit_id |-> 2, unit_name |-> "102", property_id |-> 1],
       [unit_id |-> 3, unit_name |-> "201", property_id |-> 2] >>

InitTenants ==
    << [tenant_id |-> 1, name |-> "John Smith", unit_id |-> 1, status |-> "active"],
       [tenant_id |-> 2, name |-> "Jane Doe", unit_id |-> 2, status |-> "active"],
       [tenant_id |-> 3, name |-> "Robert Johnson", unit_id |-> 3, status |-> "active"] >>

InitLeases ==
    << [lease_id |-> 1, property_id |-> 1, unit_id |-> 1, rent_amount |-> 1200,
        start_date |-> Date(2023, 1, 1), end_date |-> Date(2024, 1, 1), status |-> "active"],
       [lease_id |-> 2, property_id |-> 1, unit_id |-> 2, rent_amount |-> 1000,
        start_date |-> Date(2023, 2, 1), end_date |-> Date(2024, 2, 1), status |-> "active"],
       [lease_id |-> 3, property_id |-> 2, unit_id |-> 3, rent_amount |-> 1500,
        start_date |-> Date(2023, 3, 1), end_date |-> Date(2024, 3, 1), status |-> "active"] >>

InitLeaseTenants ==
    << [lease_id |-> 1, tenant_id |-> 1],
       [lease_id |-> 2, tenant_id |-> 2],
       [lease_id |-> 3, tenant_id |-> 3] >>

InitPayments ==
    << [payment_id |-> 1, lease_id |-> 1, tenant_id |-> 1, amount |-> 1200,
        payment_date |-> Date(2023, 1, 5), payment_type |-> "rent"],
       [payment_id |-> 2, lease_id |-> 2, tenant_id |-> 2, amount |-> 1000,
        payment_date |-> Date(2023, 2, 3), payment_type |-> "rent"],
       [payment_id |-> 3, lease_id |-> 3, tenant_id |-> 3, amount |-> 1500,
        payment_date |-> Date(2023, 3, 2), payment_type |-> "rent"] >>

InitRepos ==
    /\ properties = InitProperties
    /\ units = InitUnits
    /\ tenants = InitTenants
    /\ leases = InitLeases
    /\ lease_tenants = InitLeaseTenants
    /\ payments = InitPayments
    /\ ops = 0

----------------------------------------------------------------------------
(* Repository reads *)

\* the first of the matching records, or None
FirstOf(hits) == IF hits = <<>> THEN NotFound ELSE Head(hits)

\* a comprehension as the list it builds, its elements computed once
ListOf(elements) == elements \o <<>>

RECURSIVE SumSeq(_)
\* sum(...) of a list of amounts
SumSeq(amounts) ==
    IF amounts = <<>> THEN 0 ELSE Head(amounts) + SumSeq(Tail(amounts))

Amounts(pays) == [i \in 1..Len(pays) |-> pays[i].amount]

OfType(pays, payment_type) == SelectSeq(pays, LAMBDA p : p.payment_type = payment_type)

property_get_by_id_default(property_id) ==
    LET hits == SelectSeq(properties, LAMBDA p : p.id = property_id)
    IN  IF hits = <<>> THEN [id |-> property_id, name |-> ""] ELSE Head(hits)

property_get_by_id(property_id) ==
    FirstOf(SelectSeq(properties, LAMBDA p : p.id = property_id))

unit_get_by_id(unit_id) ==
    FirstOf(SelectSeq(units, LAMBDA u : u.unit_id = unit_id))

unit_get_by_property(property_id) ==
    SelectSeq(units, LAMBDA u : u.property_id = property_id)

tenant_get_by_id_active(tenant_id) ==
    FirstOf(SelectSeq(tenants, LAMBDA t : t.tenant_id = tenant_id /\ t.status = "active"))

tenant_get_by_id(tenant_id) ==
    FirstOf(SelectSeq(tenants, LAMBDA t : t.tenant_id = tenant_id))

\* get_by_unit without its status filter
tenant_get_by_unit_any_status(unit_id) ==
    SelectSeq(tenants, LAMBDA t : t.unit_id = unit_id)

tenant_get_by_unit(unit_id) ==
    SelectSeq(tenants, LAMBDA t : t.unit_id = unit_id /\ t.status = "active")

get_lease_tenants(lease_id) ==
    LET rows == SelectSeq(lease_tenants, LAMBDA lt : lt.lease_id = lease_id)
    IN  [i \in 1..Len(rows) |-> rows[i].tenant_id]

get_tenant_leases(tenant_id) ==
    LET rows == SelectSeq(lease_tenants, LAMBDA lt : lt.tenant_id = tenant_id)
    IN  [i \in 1..Len(rows) |-> rows[i].lease_id]

\* Lease.from_dict(lease, tenant_ids)
LeaseFromDict(lease, tenant_ids) ==
    [lease_id |-> lease.lease_id, property_id |-> lease.property_id,
     unit_id |-> lease.unit_id, rent_amount |-> lease.rent_amount,
     start_date |-> lease.start_date, end_date |-> lease.end_date,
     status |-> lease.status, tenant_ids |-> tenant_ids]

WithTenants(rows) ==
    [i \in 1..Len(rows) |-> LeaseFromDict(rows[i], get_lease_tenants(rows[i].lease_id))]

lease_get_by_id(lease_id) ==
    LET hits == SelectSeq(leases, LAMBDA l : l.lease_id = lease_id)
    IN  IF hits = <<>> THEN NotFound
        ELSE LeaseFromDict(Head(hits), get_lease_tenants(lease_id))

lease_get_by_unit(unit_id) ==
    WithTenants(SelectSeq(leases, LAMBDA l : l.unit_id = unit_id))

lease_get_by_tenant(tenant_id) ==
    LET lease_ids == SeqToSet(get_tenant_leases(tenant_id))
    IN  WithTenants(SelectSeq(leases, LAMBDA l : l.lease_id \in lease_ids))

payment_get_by_id(payment_id) ==
    FirstOf(SelectSeq(payments, LAMBDA p : p.payment_id = payment_id))

\* the lease's payments among those loaded at construction
payment_get_by_lease_loaded(lease_id) ==
    SelectSeq(payments, LAMBDA p : p.lease_id = lease_id /\ p.payment_id <= Len(InitPayments))

payment_get_by_lease(lease_id) ==
    SelectSeq(payments, LAMBDA p : p.lease_id = lease_id)

payment_get_by_tenant_on_leases(tenant_id) ==
    SelectSeq(payments, LAMBDA p : /\ p.tenant_id = tenant_id
                                   /\ p.lease_id \in SeqToSet(get_tenant_leases(tenant_id)))

payment_get_by_tenant(tenant_id) ==
    SelectSeq(payments, LAMBDA p : p.tenant_id = tenant_id)

AnyStatus(rows) == rows

ActiveOnly(rows) == SelectSeq(rows, LAMBDA r : r.status = "active")

----------------------------------------------------------------------------
(* ReportService: report builders *)

\* the truth value of an optional id: None and 0 are false
Truthy(id) == id # None /\ id # 0

PaymentSummary(pays) ==
    [count |-> Len(pays),
     total_amount |-> SumSeq(Amounts(pays)),
     rent_amount |-> SumSeq(Amounts(OfType(pays, "rent"))),
     security_deposit_amount |-> SumSeq(Amounts(OfType(pays, "security_deposit"))),
     late_fee_amount |-> SumSeq(Amounts(OfType(pays, "late_fee"))),
     utility_amount |-> SumSeq(Amounts(OfType(pays, "utility"))),
     maintenance_amount |-> SumSeq(Amounts(OfType(pays, "maintenance"))),
     other_amount |-> SumSeq(Amounts(OfType(pays, "other")))]

LeaseFinancialSummaryAllTypes(lease, pays) ==
    LET months_active == calculate_months_between(lease.start_date, lease.end_date)
        total_rent_due == lease.rent_amount * months_active
        total_paid == SumSeq(Amounts(SelectSeq(pays,
                          LAMBDA p : p.lease_id = lease.lease_id)))
    IN  [lease_id |-> lease.lease_id, rent_amount |-> lease.rent_amount,
         start_date |-> lease.start_date, end_date |-> lease.end_date,
         months_active |-> months_active, total_rent_due |-> total_rent_due,
         total_paid |-> total_paid, balance |-> total_rent_due - total_paid]

LeaseFinancialSummary(lease, pays) ==
    LET months_active == calculate_months_between(lease.start_date, lease.end_date)
        total_rent_due == lease.rent_amount * months_active
        total_paid == SumSeq(Amounts(SelectSeq(pays,
                          LAMBDA p : p.lease_id = lease.lease_id /\ p.payment_type = "rent")))
    IN  [lease_id |-> lease.lease_id, rent_amount |-> lease.rent_amount,
         start_date |-> lease.start_date, end_date |-> lease.end_date,
         months_active |-> months_active, total_rent_due |-> total_rent_due,
         total_paid |-> total_paid, balance |-> total_rent_due - total_paid]

generate_tenant_balance_report(tenant_id) ==
    LET tenant == tenant_get_by_id(tenant_id)
    IN  IF tenant = NotFound THEN NotFound
        ELSE
        LET unit_id == tenant.unit_id
            unit == IF Truthy(unit_id) THEN unit_get_by_id(unit_id) ELSE NotFound
            property_id == IF unit # NotFound THEN unit.property_id ELSE None
            active_leases == ActiveOnly(lease_get_by_tenant(tenant_id))
            pays == payment_get_by_tenant(tenant_id)
            lease_summary ==
                IF active_leases # <<>>
                THEN LeaseFinancialSummary(active_leases[1], pays)
                ELSE NotFound
        IN  [kind |-> "TenantBalanceReport",
             tenant_id |-> tenant.tenant_id, tenant_name |-> tenant.name,
             unit_id |-> unit_id, property_id |-> property_id,
             lease_summary |-> lease_summary,
             payment_summary |-> PaymentSummary(pays)]

TenantInfo(tenant) ==
    [tenant_id |-> tenant.tenant_id, name |-> tenant.name, status |-> tenant.status]

PaymentDicts(rent_payments) ==
    [i \in 1..Len(rent_payments) |->
        [payment_date |-> rent_payments[i].payment_date, amount |-> rent_payments[i].amount]]

PaymentHistory(rent_payments) ==
    [i \in 1..Len(rent_payments) |->
        [payment_id |-> rent_payments[i].payment_id,
         date |-> rent_payments[i].payment_date,
         amount |-> rent_payments[i].amount]]

\* the unit's tenants, narrowed to those whose status is active
unit_active_tenants(unit_id) == ActiveOnly(tenant_get_by_unit(unit_id))

generate_unit_balance_report(unit_id) ==
    LET unit == unit_get_by_id(unit_id)
        property_obj == IF unit = NotFound THEN NotFound
                        ELSE property_get_by_id(unit.property_id)
    IN  IF unit = NotFound \/ property_obj = NotFound THEN NotFound
        ELSE
        LET active_tenants == unit_active_tenants(unit_id)
            active_leases == ActiveOnly(lease_get_by_unit(unit_id))
            has_lease == active_leases # <<>>
            lease == active_leases[1]
            months_active == calculate_months_between(lease.start_date, lease.end_date)
            rent_payments == OfType(payment_get_by_lease(lease.lease_id), "rent")
            total_due == IF has_lease THEN lease.rent_amount * months_active ELSE 0
            total_paid == IF has_lease THEN SumSeq(Amounts(rent_payments)) ELSE 0
        IN  [kind |-> "UnitBalanceReport",
             unit_id |-> unit.unit_id, unit_name |-> unit.unit_name,
             property_id |-> property_obj.id, property_name |-> property_obj.name,
             status |-> IF active_tenants # <<>> THEN "occupied" ELSE "vacant",
             tenants |-> [i \in 1..Len(active_tenants) |-> TenantInfo(active_tenants[i])],
             active_lease_id |-> IF has_lease THEN lease.lease_id ELSE None,
             rent_amount |-> IF has_lease THEN lease.rent_amount ELSE None,
             lease_start_date |-> IF has_lease THEN lease.start_date ELSE NotFound,
             lease_end_date |-> IF has_lease THEN lease.end_date ELSE NotFound,
             total_due |-> total_due,
             total_paid |-> total_paid,
             balance |-> total_due - total_paid,
             missing_periods |->
                 IF has_lease
                 THEN identify_missing_payment_periods(
                          lease.start_date, lease.rent_amount, PaymentDicts(rent_payments))
                 ELSE <<>>,
             payment_history |-> IF has_lease THEN PaymentHistory(rent_payments) ELSE <<>>]

\* a UnitBalanceInfo that runs the lease calculations whatever the occupancy
UnitBalanceInfoAnyOccupancy(unit) ==
    LET active_tenants == ActiveOnly(tenant_get_by_unit(unit.unit_id))
        tenant_count == Len(active_tenants)
        is_occupied == tenant_count > 0
        active_leases == ActiveOnly(lease_get_by_unit(unit.unit_id))
        detailed == active_leases # <<>>
        lease == active_leases[1]
        months_active == calculate_months_between(lease.start_date, lease.end_date)
        unit_due == lease.rent_amount * months_active
        rent_payments == OfType(payment_get_by_lease(lease.lease_id), "rent")
        unit_paid == SumSeq(Amounts(rent_payments))
        missing_periods ==
            identify_missing_payment_periods(
                lease.start_date, lease.rent_amount, PaymentDicts(rent_payments))
    IN  [unit_id |-> unit.unit_id, unit_name |-> unit.unit_name,
         occupied |-> is_occupied, tenant_count |-> tenant_count,
         rent_amount |-> IF detailed THEN lease.rent_amount ELSE None,
         total_due |-> IF detailed THEN unit_due ELSE 0,
         total_paid |-> IF detailed THEN unit_paid ELSE 0,
         balance |-> IF detailed THEN unit_due - unit_paid ELSE 0,
         has_missing_payments |-> detailed /\ missing_periods # <<>>,
         missing_payment_count |-> IF detailed THEN Len(missing_periods) ELSE 0]

\* one unit's UnitBalanceInfo, as the loop over the property's units builds it
UnitBalanceInfo(unit) ==
    LET active_tenants == ActiveOnly(tenant_get_by_unit(unit.unit_id))
        tenant_count == Len(active_tenants)
        is_occupied == tenant_count > 0
        active_leases == ActiveOnly(lease_get_by_unit(unit.unit_id))
        detailed == is_occupied /\ active_leases # <<>>
        lease == active_leases[1]
        months_active == calculate_months_between(lease.start_date, lease.end_date)
        unit_due == lease.rent_amount * months_active
        rent_payments == OfType(payment_get_by_lease(lease.lease_id), "rent")
        unit_paid == SumSeq(Amounts(rent_payments))
        missing_periods ==
            identify_missing_payment_periods(
                lease.start_date, lease.rent_amount, PaymentDicts(rent_payments))
    IN  [unit_id |-> unit.unit_id, unit_name |-> unit.unit_name,
         occupied |-> is_occupied, tenant_count |-> tenant_count,
         rent_amount |-> IF detailed THEN lease.rent_amount ELSE None,
         total_due |-> IF detailed THEN unit_due ELSE 0,
         total_paid |-> IF detailed THEN unit_paid ELSE 0,
         balance |-> IF detailed THEN unit_due - unit_paid ELSE 0,
         has_missing_payments |-> detailed /\ missing_periods # <<>>,
         missing_payment_count |-> IF detailed THEN Len(missing_periods) ELSE 0]

InsertByBalanceBeforeTies(sorted, row) ==
    LET ahead == Cardinality({i \in 1..Len(sorted) : sorted[i].balance > row.balance})
    IN  SubSeq(sorted, 1, ahead) \o <<row>> \o SubSeq(sorted, ahead + 1, Len(sorted))

\* row put after the rows of sorted whose balance is at least its own
InsertByBalance(sorted, row) ==
    LET ahead == Cardinality({i \in 1..Len(sorted) : sorted[i].balance >= row.balance})
    IN  SubSeq(sorted, 1, ahead) \o <<row>> \o SubSeq(sorted, ahead + 1, Len(sorted))

RECURSIVE SortByBalanceInto(_, _)
SortByBalanceInto(sorted, rows) ==
    IF rows = <<>> THEN sorted
    ELSE SortByBalanceInto(InsertByBalance(sorted, Head(rows)), Tail(rows))

\* list.sort(key=balance, reverse=True): descending, equal balances keep their order
SortByBalanceDesc(rows) == SortByBalanceInto(<<>>, rows)

generate_property_balance_report_nonzero(property_id) ==
    LET property_obj == property_get_by_id(property_id)
    IN  IF property_obj = NotFound THEN NotFound
        ELSE
        LET units_ == unit_get_by_property(property_id)
            infos == ListOf([i \in 1..Len(units_) |-> UnitBalanceInfo(units_[i])])
            total_due == SumSeq([i \in 1..Len(infos) |-> infos[i].total_due])
            total_paid == SumSeq([i \in 1..Len(infos) |-> infos[i].total_paid])
        IN  [kind |-> "PropertyBalanceReport",
             property_id |-> property_obj.id, property_name |-> property_obj.name,
             report_date |-> today,
             unit_count |-> Len(units_),
             occupied_units |-> Cardinality({i \in 1..Len(infos) : infos[i].occupied}),
             total_due |-> total_due,
             total_paid |-> total_paid,
             total_balance |-> total_due - total_paid,
             units_with_balance |-> Cardinality({i \in 1..Len(infos) : infos[i].balance # 0}),
             unit_balances |-> SortByBalanceDesc(infos)]

generate_property_balance_report(property_id) ==
    LET property_obj == property_get_by_id(property_id)
    IN  IF property_obj = NotFound THEN NotFound
        ELSE
        LET units_ == unit_get_by_property(property_id)
            infos == ListOf([i \in 1..Len(units_) |-> UnitBalanceInfo(units_[i])])
            total_due == SumSeq([i \in 1..Len(infos) |-> infos[i].total_due])
            total_paid == SumSeq([i \in 1..Len(infos) |-> infos[i].total_paid])
        IN  [kind |-> "PropertyBalanceReport",
             property_id |-> property_obj.id, property_name |-> property_obj.name,
             report_date |-> today,
             unit_count |-> Len(units_),
             occupied_units |-> Cardinality({i \in 1..Len(infos) : infos[i].occupied}),
             total_due |-> total_due,
             total_paid |-> total_paid,
             total_balance |-> total_due - total_paid,
             units_with_balance |-> Cardinality({i \in 1..Len(infos) : infos[i].balance > 0}),
             unit_balances |-> SortByBalanceDesc(infos)]

\* the tenant summaries one active lease adds to its unit's summary
LeaseTenantSummaries(lease) ==
    LET lease_rent_due ==
            lease.rent_amount * calculate_months_between(lease.start_date, lease.end_date)
        lease_rent_paid ==
            SumSeq(Amounts(OfType(payment_get_by_lease(lease.lease_id), "rent")))
        found == SelectSeq(lease.tenant_ids, LAMBDA id : tenant_get_by_id(id) # NotFound)
    IN  [k \in 1..Len(found) |->
            [tenant_id |-> tenant_get_by_id(found[k]).tenant_id,
             tenant_name |-> tenant_get_by_id(found[k]).name,
             lease_id |-> lease.lease_id, rent_amount |-> lease.rent_amount,
             rent_due |-> lease_rent_due, rent_paid |-> lease_rent_paid,
             balance |-> lease_rent_due - lease_rent_paid]]

RECURSIVE Flatten(_)
\* the lists of a list, one after the other
Flatten(lists) == IF lists = <<>> THEN <<>> ELSE Head(lists) \o Flatten(Tail(lists))

\* a unit summary that counts the first active lease only
UnitSummaryFirstLease(unit) ==
    LET active_tenants == ActiveOnly(tenant_get_by_unit(unit.unit_id))
        active_leases == ActiveOnly(lease_get_by_unit(unit.unit_id))
        first == IF active_leases = <<>> THEN <<>> ELSE <<active_leases[1]>>
        unit_rent_due ==
            SumSeq([k \in 1..Len(first) |->
                       first[k].rent_amount
                           * calculate_months_between(first[k].start_date, first[k].end_date)])
        unit_rent_paid ==
            SumSeq([k \in 1..Len(first) |->
                       SumSeq(Amounts(OfType(payment_get_by_lease(first[k].lease_id), "rent")))])
    IN  IF active_tenants = <<>>
        THEN [unit_id |-> unit.unit_id, unit_name |-> unit.unit_name,
              occupied |-> FALSE, tenants |-> <<>>,
              rent_due |-> 0, rent_paid |-> 0, balance |-> 0]
        ELSE [unit_id |-> unit.unit_id, unit_name |-> unit.unit_name,
              occupied |-> TRUE,
              tenants |-> Flatten([k \in 1..Len(active_leases) |->
                                      LeaseTenantSummaries(active_leases[k])]),
              rent_due |-> unit_rent_due, rent_paid |-> unit_rent_paid,
              balance |-> unit_rent_due - unit_rent_paid]

\* one unit's summary, as the loop of generate_property_report builds it
UnitSummary(unit) ==
    LET active_tenants == ActiveOnly(tenant_get_by_unit(unit.unit_id))
        active_leases == ActiveOnly(lease_get_by_unit(unit.unit_id))
        unit_rent_due ==
            SumSeq([k \in 1..Len(active_leases) |->
                       active_leases[k].rent_amount
                           * calculate_months_between(active_leases[k].start_date,
                                                      active_leases[k].end_date)])
        unit_rent_paid ==
            SumSeq([k \in 1..Len(active_leases) |->
                       SumSeq(Amounts(OfType(
                           payment_get_by_lease(active_leases[k].lease_id), "rent")))])
    IN  IF active_tenants = <<>>
        THEN [unit_id |-> unit.unit_id, unit_name |-> unit.unit_name,
              occupied |-> FALSE, tenants |-> <<>>,
              rent_due |-> 0, rent_paid |-> 0, balance |-> 0]
        ELSE [unit_id |-> unit.unit_id, unit_name |-> unit.unit_name,
              occupied |-> TRUE,
              tenants |-> Flatten([k \in 1..Len(active_leases) |->
                                      LeaseTenantSummaries(active_leases[k])]),
              rent_due |-> unit_rent_due, rent_paid |-> unit_rent_paid,
              balance |-> unit_rent_due - unit_rent_paid]

generate_property_report(property_id) ==
    LET property_obj == property_get_by_id(property_id)
    IN  IF property_obj = NotFound THEN NotFound
        ELSE
        LET units_ == unit_get_by_property(property_id)
            unit_summaries == ListOf([i \in 1..Len(units_) |-> UnitSummary(units_[i])])
            total_rent_due == SumSeq([i \in 1..Len(units_) |-> unit_summaries[i].rent_due])
            total_paid == SumSeq([i \in 1..Len(units_) |-> unit_summaries[i].rent_paid])
        IN  [kind |-> "PropertyFinancialSummary",
             property_id |-> property_obj.id, property_name |-> property_obj.name,
             unit_count |-> Len(units_),
             occupied_units |->
                 Cardinality({i \in 1..Len(units_) : unit_summaries[i].occupied}),
             total_rent_due |-> total_rent_due,
             total_paid |-> total_paid,
             total_balance |-> total_rent_due - total_paid,
             unit_summaries |-> unit_summaries]

\* the values a dict can hold under "balance": a Python value with its type
PyFloat(v) == [t |-> "float", v |-> v]
PyInt(v) == [t |-> "int", v |-> v]
PyNone == [t |-> "NoneType"]
PyStr(v) == [t |-> "str", v |-> v]
PyList == [t |-> "list"]

\* float(s) of a string: its number, or ValueError (None here)
FloatOfStr(s) == IF s = "250.0" THEN 250 ELSE None

get_balance_value_last(prop_summary) ==
    LET balance == IF "balance" \in DOMAIN prop_summary
                   THEN prop_summary.balance ELSE PyNone
    IN  IF balance.t \in {"float", "int"} THEN balance.v
        ELSE IF balance.t = "str" /\ FloatOfStr(balance.v) # None
             THEN FloatOfStr(balance.v)
        ELSE -1000000

get_balance_value(prop_summary) ==
    LET balance == IF "balance" \in DOMAIN prop_summary
                   THEN prop_summary.balance ELSE PyInt(0)
    IN  IF balance.t = "NoneType" THEN 0
        ELSE IF balance.t \in {"float", "int"} THEN balance.v
        ELSE IF balance.t = "str" /\ FloatOfStr(balance.v) # None
             THEN FloatOfStr(balance.v)
        ELSE 0

\* row put after the summaries of sorted whose key is at least its own
InsertSummary(sorted, row) ==
    LET ahead == Cardinality({i \in 1..Len(sorted) :
                     get_balance_value(sorted[i]) >= get_balance_value(row)})
    IN  SubSeq(sorted, 1, ahead) \o <<row>> \o SubSeq(sorted, ahead + 1, Len(sorted))

RECURSIVE SortSummariesInto(_, _)
SortSummariesInto(sorted, rows) ==
    IF rows = <<>> THEN sorted
    ELSE SortSummariesInto(InsertSummary(sorted, Head(rows)), Tail(rows))

\* property_summaries.sort(key=get_balance_value, reverse=True)
SortSummariesDesc(property_summaries) == SortSummariesInto(<<>>, property_summaries)

PropertySummary(prop, property_report) ==
    [property_id |-> prop.id, name |-> prop.name,
     unit_count |-> property_report.unit_count,
     occupied_units |-> property_report.occupied_units,
     total_due |-> property_report.total_due,
     total_paid |-> property_report.total_paid,
     balance |-> PyFloat(property_report.total_balance),
     units_with_balance |-> property_report.units_with_balance]

\* the loop over the properties: each property with its balance report
PropertyReports ==
    ListOf([i \in 1..Len(properties) |->
               [prop |-> properties[i],
                property_report |-> generate_property_balance_report(properties[i].id)]])

AllPropertiesBalanceReportSkippingEmpty(property_count, looped) ==
    LET kept == SelectSeq(looped, LAMBDA r : r.property_report.unit_count > 0)
        total_due == SumSeq([k \in 1..Len(kept) |-> kept[k].property_report.total_due])
        total_paid == SumSeq([k \in 1..Len(kept) |-> kept[k].property_report.total_paid])
    IN  [kind |-> "AllPropertiesBalanceReport",
         report_date |-> today,
         property_count |-> property_count,
         total_units |->
             SumSeq([k \in 1..Len(kept) |-> kept[k].property_report.unit_count]),
         occupied_units |->
             SumSeq([k \in 1..Len(kept) |-> kept[k].property_report.occupied_units]),
         total_due |-> total_due,
         total_paid |-> total_paid,
         total_balance |-> total_due - total_paid,
         property_summaries |->
             SortSummariesDesc(ListOf([k \in 1..Len(kept) |->
                 PropertySummary(kept[k].prop, kept[k].property_report)]))]

\* the report the loop's totals and summaries make
AllPropertiesBalanceReport(property_count, looped) ==
    LET kept == SelectSeq(looped, LAMBDA r : r.property_report # NotFound)
        total_due == SumSeq([k \in 1..Len(kept) |-> kept[k].property_report.total_due])
        total_paid == SumSeq([k \in 1..Len(kept) |-> kept[k].property_report.total_paid])
    IN  [kind |-> "AllPropertiesBalanceReport",
         report_date |-> today,
         property_count |-> property_count,
         total_units |->
             SumSeq([k \in 1..Len(kept) |-> kept[k].property_report.unit_count]),
         occupied_units |->
             SumSeq([k \in 1..Len(kept) |-> kept[k].property_report.occupied_units]),
         total_due |-> total_due,
         total_paid |-> total_paid,
         total_balance |-> total_due - total_paid,
         property_summaries |->
             SortSummariesDesc(ListOf([k \in 1..Len(kept) |->
                 PropertySummary(kept[k].prop, kept[k].property_report)]))]

generate_all_properties_balance_report ==
    CHOOSE report \in {AllPropertiesBalanceReport(Len(properties), looped) :
                          looped \in {PropertyReports}} : TRUE

generate_balance_report(property_id, unit_id) ==
    IF Truthy(unit_id) THEN generate_unit_balance_report(unit_id)
    ELSE IF Truthy(property_id) THEN generate_property_balance_report(property_id)
    ELSE generate_all_properties_balance_report

----------------------------------------------------------------------------
(* Repository writes *)

\* an id drawn from the number of stored rows
SetSize(S) == Cardinality(S)

SetMax(S) == CHOOSE x \in S : \A y \in S : y <= x

\* the least of the matching indexes (0 when there is none)
FirstIndex(hits) ==
    IF hits = {} THEN 0 ELSE CHOOSE i \in hits : \A j \in hits : i <= j

\* a delete that drops the last row in place of rows[i]
RemoveLast(rows, i) == SubSeq(rows, 1, Len(rows) - 1)

\* del rows[i]
RemoveAt(rows, i) == SubSeq(rows, 1, i - 1) \o SubSeq(rows, i + 1, Len(rows))

\* a call that returned without writing
Returned(op, id, ret) ==
    /\ last' = [op |-> op, id |-> id, ret |-> ret]
    /\ UNCHANGED ops

\* a call that wrote to a repository
Wrote(op, id, ret) ==
    /\ last' = [op |-> op, id |-> id, ret |-> ret]
    /\ ops' = ops + 1

PropertyCreate(property_data) ==
    LET new_id == IF properties = <<>> THEN 1
                  ELSE SetMax({properties[i].id : i \in 1..Len(properties)}) + 1
        new_property == [id |-> new_id, name |-> property_data.name]
    IN  /\ ops < MaxOps
        /\ properties' = Append(properties, new_property)
        /\ Wrote("property_create", new_id, new_property)
        /\ UNCHANGED <<today, units, tenants, leases, lease_tenants, payments>>

PropertyUpdate(property_id, property_data) ==
    LET i == FirstIndex({k \in 1..Len(properties) : properties[k].id = property_id})
        updated == [id |-> property_id, name |-> property_data.name]
    IN  /\ ops < MaxOps
        /\ IF i = 0
           THEN Returned("property_update", property_id, NotFound) /\ UNCHANGED properties
           ELSE /\ properties' = [properties EXCEPT ![i] = updated]
                /\ Wrote("property_update", property_id, updated)
        /\ UNCHANGED <<today, units, tenants, leases, lease_tenants, payments>>

PropertyDelete(property_id) ==
    LET i == FirstIndex({k \in 1..Len(properties) : properties[k].id = property_id})
    IN  /\ ops < MaxOps
        /\ IF i = 0
           THEN Returned("property_delete", property_id, FALSE) /\ UNCHANGED properties
           ELSE /\ properties' = RemoveAt(properties, i)
                /\ Wrote("property_delete", property_id, TRUE)
        /\ UNCHANGED <<today, units, tenants, leases, lease_tenants, payments>>

UnitCreate(unit_data) ==
    LET new_id == IF units = <<>> THEN 1
                  ELSE SetMax({units[i].unit_id : i \in 1..Len(units)}) + 1
        new_unit == [unit_id |-> new_id, unit_name |-> unit_data.unit_name,
                     property_id |-> unit_data.property_id]
    IN  /\ ops < MaxOps
        /\ IF property_get_by_id(unit_data.property_id) = NotFound
           THEN Returned("unit_create", None, NotFound) /\ UNCHANGED units
           ELSE /\ units' = Append(units, new_unit)
                /\ Wrote("unit_create", new_id, new_unit)
        /\ UNCHANGED <<today, properties, tenants, leases, lease_tenants, payments>>

UnitUpdate(unit_id, unit_data) ==
    LET i == FirstIndex({k \in 1..Len(units) : units[k].unit_id = unit_id})
        updated == [unit_id |-> unit_id, unit_name |-> unit_data.unit_name,
                    property_id |-> unit_data.property_id]
    IN  /\ ops < MaxOps
        /\ IF \/ /\ unit_data.property_id # None
                 /\ property_get_by_id(unit_data.property_id) = NotFound
              \/ i = 0
           THEN Returned("unit_update", unit_id, NotFound) /\ UNCHANGED units
           ELSE /\ units' = [units EXCEPT ![i] = updated]
                /\ Wrote("unit_update", unit_id, updated)
        /\ UNCHANGED <<today, properties, tenants, leases, lease_tenants, payments>>

UnitDelete(unit_id) ==
    LET i == FirstIndex({k \in 1..Len(units) : units[k].unit_id = unit_id})
    IN  /\ ops < MaxOps
        /\ IF i = 0
           THEN Returned("unit_delete", unit_id, FALSE) /\ UNCHANGED units
           ELSE /\ units' = RemoveAt(units, i)
                /\ Wrote("unit_delete", unit_id, TRUE)
        /\ UNCHANGED <<today, properties, tenants, leases, lease_tenants, payments>>

TenantCreate(tenant_data) ==
    LET new_id == IF tenants = <<>> THEN 1
                  ELSE SetMax({tenants[i].tenant_id : i \in 1..Len(tenants)}) + 1
        new_tenant == [tenant_id |-> new_id, name |-> tenant_data.name,
                       unit_id |-> tenant_data.unit_id, status |-> tenant_data.status]
    IN  /\ ops < MaxOps
        /\ IF tenant_data.unit_id # None /\ unit_get_by_id(tenant_data.unit_id) = NotFound
           THEN Returned("tenant_create", None, NotFound) /\ UNCHANGED tenants
           ELSE /\ tenants' = Append(tenants, new_tenant)
                /\ Wrote("tenant_create", new_id, new_tenant)
        /\ UNCHANGED <<today, properties, units, leases, lease_tenants, payments>>

TenantUpdate(tenant_id, tenant_data) ==
    LET i == FirstIndex({k \in 1..Len(tenants) : tenants[k].tenant_id = tenant_id})
        updated == [tenant_id |-> tenant_id, name |-> tenant_data.name,
                    unit_id |-> tenant_data.unit_id, status |-> tenant_data.status]
    IN  /\ ops < MaxOps
        /\ IF \/ /\ tenant_data.unit_id # None
                 /\ unit_get_by_id(tenant_data.unit_id) = NotFound
              \/ i = 0
           THEN Returned("tenant_update", tenant_id, NotFound) /\ UNCHANGED tenants
           ELSE /\ tenants' = [tenants EXCEPT ![i] = updated]
                /\ Wrote("tenant_update", tenant_id, updated)
        /\ UNCHANGED <<today, properties, units, leases, lease_tenants, payments>>

TenantDelete(tenant_id) ==
    LET i == FirstIndex({k \in 1..Len(tenants) : tenants[k].tenant_id = tenant_id})
    IN  /\ ops < MaxOps
        /\ IF i = 0
           THEN Returned("tenant_delete", tenant_id, FALSE) /\ UNCHANGED tenants
           ELSE /\ tenants' = RemoveAt(tenants, i)
                /\ Wrote("tenant_delete", tenant_id, TRUE)
        /\ UNCHANGED <<today, properties, units, leases, lease_tenants, payments>>

LeaseRow(lease_id, lease_data) ==
    [lease_id |-> lease_id, property_id |-> lease_data.property_id,
     unit_id |-> lease_data.unit_id, rent_amount |-> lease_data.rent_amount,
     start_date |-> lease_data.start_date, end_date |-> lease_data.end_date,
     status |-> lease_data.status]

\* "the property exists, the unit exists and belongs to the property"
LeasePlaceOk(lease_data) ==
    /\ property_get_by_id(lease_data.property_id) # NotFound
    /\ unit_get_by_id(lease_data.unit_id) # NotFound
    /\ unit_get_by_id(lease_data.unit_id).property_id = lease_data.property_id

\* "all tenants exist"
TenantsExist(tenant_ids) ==
    \A k \in 1..Len(tenant_ids) : tenant_get_by_id(tenant_ids[k]) # NotFound

JunctionRows(lease_id, tenant_ids) ==
    [k \in 1..Len(tenant_ids) |-> [lease_id |-> lease_id, tenant_id |-> tenant_ids[k]]]

LeaseCreate(lease_data, tenant_ids) ==
    LET new_id == IF leases = <<>> THEN 1
                  ELSE SetMax({leases[i].lease_id : i \in 1..Len(leases)}) + 1
        new_lease == LeaseRow(new_id, lease_data)
    IN  /\ ops < MaxOps
        /\ IF ~ LeasePlaceOk(lease_data) \/ ~ TenantsExist(tenant_ids)
           THEN /\ Returned("lease_create", None, NotFound)
                /\ UNCHANGED <<leases, lease_tenants>>
           ELSE /\ leases' = Append(leases, new_lease)
                /\ lease_tenants' = lease_tenants \o JunctionRows(new_id, tenant_ids)
                /\ Wrote("lease_create", new_id, LeaseFromDict(new_lease, tenant_ids))
        /\ UNCHANGED <<today, properties, units, tenants, payments>>

LeaseUpdate(lease_id, lease_data, tenant_ids) ==
    LET i == FirstIndex({k \in 1..Len(leases) : leases[k].lease_id = lease_id})
        updated == LeaseRow(lease_id, lease_data)
        kept == SelectSeq(lease_tenants, LAMBDA lt : lt.lease_id # lease_id)
    IN  /\ ops < MaxOps
        /\ IF i = 0 \/ ~ LeasePlaceOk(lease_data)
           THEN /\ Returned("lease_update", lease_id, NotFound)
                /\ UNCHANGED <<leases, lease_tenants>>
           ELSE /\ leases' = [leases EXCEPT ![i] = updated]
                /\ IF ~ TenantsExist(tenant_ids)
                   THEN /\ UNCHANGED lease_tenants
                        /\ Wrote("lease_update", lease_id, NotFound)
                   ELSE /\ lease_tenants' = kept \o JunctionRows(lease_id, tenant_ids)
                        /\ Wrote("lease_update", lease_id, LeaseFromDict(updated, tenant_ids))
        /\ UNCHANGED <<today, properties, units, tenants, payments>>

\* update(lease_id, lease_data) with tenant_ids left at its default, None
LeaseUpdateData(lease_id, lease_data) ==
    LET i == FirstIndex({k \in 1..Len(leases) : leases[k].lease_id = lease_id})
        updated == LeaseRow(lease_id, lease_data)
    IN  /\ ops < MaxOps
        /\ IF i = 0 \/ ~ LeasePlaceOk(lease_data)
           THEN /\ Returned("lease_update", lease_id, NotFound)
                /\ UNCHANGED leases
           ELSE /\ leases' = [leases EXCEPT ![i] = updated]
                /\ Wrote("lease_update", lease_id,
                         LeaseFromDict(updated, get_lease_tenants(lease_id)))
        /\ UNCHANGED <<today, properties, units, tenants, lease_tenants, payments>>

LeaseDelete(lease_id) ==
    LET i == FirstIndex({k \in 1..Len(leases) : leases[k].lease_id = lease_id})
    IN  /\ ops < MaxOps
        /\ IF i = 0
           THEN /\ Returned("lease_delete", lease_id, FALSE)
                /\ UNCHANGED <<leases, lease_tenants>>
           ELSE /\ leases' = RemoveAt(leases, i)
                /\ lease_tenants' = SelectSeq(lease_tenants, LAMBDA lt : lt.lease_id # lease_id)
                /\ Wrote("lease_delete", lease_id, TRUE)
        /\ UNCHANGED <<today, properties, units, tenants, payments>>

PaymentRow(payment_id, payment_data) ==
    [payment_id |-> payment_id, lease_id |-> payment_data.lease_id,
     tenant_id |-> payment_data.tenant_id, amount |-> payment_data.amount,
     payment_date |-> payment_data.payment_date,
     payment_type |-> payment_data.payment_type]

\* the lease exists, the tenant exists, the tenant is on the lease
PaymentPartiesOk(lease_id, tenant_id) ==
    /\ lease_get_by_id(lease_id) # NotFound
    /\ tenant_get_by_id(tenant_id) # NotFound
    /\ tenant_id \in SeqToSet(get_lease_tenants(lease_id))

PaymentCreate(payment_data) ==
    LET new_id == IF payments = <<>> THEN 1
                  ELSE SetMax({payments[i].payment_id : i \in 1..Len(payments)}) + 1
        new_payment == PaymentRow(new_id, payment_data)
    IN  /\ ops < MaxOps
        /\ IF ~ PaymentPartiesOk(payment_data.lease_id, payment_data.tenant_id)
           THEN Returned("payment_create", None, NotFound) /\ UNCHANGED payments
           ELSE /\ payments' = Append(payments, new_payment)
                /\ Wrote("payment_create", new_id, new_payment)
        /\ UNCHANGED <<today, properties, units, tenants, leases, lease_tenants>>

PaymentUpdate(payment_id, payment_data) ==
    LET i == FirstIndex({k \in 1..Len(payments) : payments[k].payment_id = payment_id})
        updated == PaymentRow(payment_id, payment_data)
    IN  /\ ops < MaxOps
        /\ IF i = 0 \/ ~ PaymentPartiesOk(payment_data.lease_id, payment_data.tenant_id)
           THEN Returned("payment_update", payment_id, NotFound) /\ UNCHANGED payments
           ELSE /\ payments' = [payments EXCEPT ![i] = updated]
                /\ Wrote("payment_update", payment_id, updated)
        /\ UNCHANGED <<today, properties, units, tenants, leases, lease_tenants>>

PaymentDelete(payment_id) ==
    LET i == FirstIndex({k \in 1..Len(payments) : payments[k].payment_id = payment_id})
    IN  /\ ops < MaxOps
        /\ IF i = 0
           THEN Returned("payment_delete", payment_id, FALSE) /\ UNCHANGED payments
           ELSE /\ payments' = RemoveAt(payments, i)
                /\ Wrote("payment_delete", payment_id, TRUE)
        /\ UNCHANGED <<today, properties, units, tenants, leases, lease_tenants>>

----------------------------------------------------------------------------
(* Report calls *)

TenantReport(tenant_id) ==
    /\ last' = [op |-> "generate_tenant_balance_report", id |-> tenant_id,
                ret |-> generate_tenant_balance_report(tenant_id)]
    /\ UNCHANGED <<today, repos, ops>>

UnitReport(unit_id) ==
    /\ last' = [op |-> "generate_unit_balance_report", id |-> unit_id,
                ret |-> generate_unit_balance_report(unit_id)]
    /\ UNCHANGED <<today, repos, ops>>

PropertyBalanceReport(property_id) ==
    /\ last' = [op |-> "generate_property_balance_report", id |-> property_id,
                ret |-> generate_property_balance_report(property_id)]
    /\ UNCHANGED <<today, repos, ops>>

\* a report that sorts the repository's own list of units in place
PropertyReportSorting(property_id) ==
    /\ last' = [op |-> "generate_property_report", id |-> property_id,
                ret |-> generate_property_report(property_id)]
    /\ units' = [i \in 1..Len(units) |-> units[Len(units) + 1 - i]]
    /\ UNCHANGED <<today, properties, tenants, leases, lease_tenants, payments, ops>>

PropertyReport(property_id) ==
    /\ last' = [op |-> "generate_property_report", id |-> property_id,
                ret |-> generate_property_report(property_id)]
    /\ UNCHANGED <<today, repos, ops>>

AllPropertiesReport ==
    /\ last' = [op |-> "generate_all_properties_balance_report", id |-> None,
                ret |-> generate_all_properties_balance_report]
    /\ UNCHANGED <<today, repos, ops>>

BalanceReport(property_id, unit_id) ==
    /\ last' = [op |-> "generate_balance_report", id |-> <<property_id, unit_id>>,
                ret |-> generate_balance_report(property_id, unit_id)]
    /\ UNCHANGED <<today, repos, ops>>

----------------------------------------------------------------------------
(* The service: the sample data, then any repository writes and report calls *)

Todays == {Date(2023, 5, 10), Date(2024, 2, 15)}

PropertyIds == 1..3
UnitIds == {1, 2, 4}
TenantIds == {1, 2, 4}
LeaseIds == {1, 2, 4}
PaymentIds == {1, 2, 4}

\* the optional ids of generate_balance_report: absent, 0, or an id
FilterIds == {None, 0, 1}

PropertyInputs == {[name |-> "Harbor Lofts"]}

UnitInputs == {[unit_name |-> "301", property_id |-> p] : p \in {1, 3}}

TenantInputs ==
    { [name |-> "Ann Lee", unit_id |-> None, status |-> "former"],
      [name |-> "Ann Lee", unit_id |-> 1, status |-> "former"],
      [name |-> "Ann Lee", unit_id |-> 1, status |-> "active"],
      [name |-> "Ann Lee", unit_id |-> 4, status |-> "active"] }

LeaseInputs ==
    { [data |-> [property_id |-> 1, unit_id |-> 1, rent_amount |-> 900,
                 start_date |-> Date(2023, 3, 15), end_date |-> Date(2023, 4, 30),
                 status |-> "active"],
       tenant_ids |-> <<1, 2>>],
      [data |-> [property_id |-> 1, unit_id |-> 2, rent_amount |-> 1000,
                 start_date |-> Date(2023, 1, 31), end_date |-> Date(2024, 6, 30),
                 status |-> "expired"],
       tenant_ids |-> <<2>>],
      [data |-> [property_id |-> 1, unit_id |-> 1, rent_amount |-> 1200,
                 start_date |-> Date(2024, 6, 1), end_date |-> Date(2025, 6, 1),
                 status |-> "active"],
       tenant_ids |-> <<4>>] }

PaymentInputs ==
    { [lease_id |-> 1, tenant_id |-> 1, amount |-> 50,
       payment_date |-> Date(2023, 2, 10), payment_type |-> "late_fee"],
      [lease_id |-> 1, tenant_id |-> 2, amount |-> 500,
       payment_date |-> Date(2023, 3, 3), payment_type |-> "rent"],
      [lease_id |-> 4, tenant_id |-> 2, amount |-> 900,
       payment_date |-> Date(2023, 3, 20), payment_type |-> "rent"] }

Init ==
    /\ InitRepos
    /\ today \in Todays
    /\ last = [op |-> "init"]

Writes ==
    \/ \E d \in PropertyInputs : PropertyCreate(d)
    \/ \E id \in PropertyIds, d \in PropertyInputs : PropertyUpdate(id, d)
    \/ \E id \in PropertyIds : PropertyDelete(id)
    \/ \E d \in UnitInputs : UnitCreate(d)
    \/ \E id \in UnitIds, d \in UnitInputs : UnitUpdate(id, d)
    \/ \E id \in UnitIds : UnitDelete(id)
    \/ \E d \in TenantInputs : TenantCreate(d)
    \/ \E id \in TenantIds, d \in TenantInputs : TenantUpdate(id, d)
    \/ \E id \in TenantIds : TenantDelete(id)
    \/ \E r \in LeaseInputs : LeaseCreate(r.data, r.tenant_ids)
    \/ \E id \in LeaseIds, r \in LeaseInputs : LeaseUpdate(id, r.data, r.tenant_ids)
    \/ \E id \in LeaseIds, r \in LeaseInputs : LeaseUpdateData(id, r.data)
    \/ \E id \in LeaseIds : LeaseDelete(id)
    \/ \E d \in PaymentInputs : PaymentCreate(d)
    \/ \E id \in PaymentIds, d \in PaymentInputs : PaymentUpdate(id, d)
    \/ \E id \in PaymentIds : PaymentDelete(id)

Reports ==
    \/ \E id \in TenantIds : TenantReport(id)
    \/ \E id \in UnitIds : UnitReport(id)
    \/ \E id \in PropertyIds : PropertyBalanceReport(id)

Next == Writes \/ Reports

Spec == Init /\ [][Next]_vars

\* the reports over a whole property or all properties, and the dispatcher
PortfolioReports ==
    \/ \E id \in PropertyIds : PropertyReport(id)
    \/ AllPropertiesReport
    \/ \E property_id \in FilterIds, unit_id \in FilterIds :
           BalanceReport(property_id, unit_id)

NextPortfolio == Writes \/ Reports \/ PortfolioReports

SpecPortfolio == Init /\ [][NextPortfolio]_vars

----------------------------------------------------------------------------
(* The calendar helpers called on their own, on every input *)

CalendarDates == DatesOn({1, 15, 31})

InitMonths ==
    /\ InitRepos
    /\ today \in CalendarDates
    /\ last \in [op : {"months_args"}, start_date : CalendarDates, end_date : CalendarDates]

CallMonthsBetween ==
    /\ last.op = "months_args"
    /\ last' = [op |-> "calculate_months_between",
                start_date |-> last.start_date, end_date |-> last.end_date,
                ret |-> calculate_months_between(last.start_date, last.end_date)]
    /\ UNCHANGED <<today, repos, ops>>

SpecMonths == InitMonths /\ [][CallMonthsBetween]_vars

MonthsCalled == last.op = "calculate_months_between"

\* C1: calculate_months_between returns a non-negative integer for every pair
\* of dates and every today, an end_date earlier than start_date included.
C1_MonthsNonNegative == MonthsCalled => last.ret \in Nat

\* C2: for start_date <= today the result is
\* (e.year - start.year) * 12 + (e.month - start.month), plus 1 when
\* e.day >= start.day, with e = min(end_date, today); so an end_date at or
\* after today gives the same result as any other end_date at or after today.
C2_MonthsFormula ==
    MonthsCalled /\ DateLE(last.start_date, today) =>
        LET start == last.start_date
            e == IF DateLT(today, last.end_date) THEN today ELSE last.end_date
            whole == (e.year - start.year) * 12 + (e.month - start.month)
        IN  /\ last.ret = whole + (IF e.day >= start.day THEN 1 ELSE 0)
            /\ DateLE(today, last.end_date) =>
                   \A later \in CalendarDates :
                       DateLE(today, later) =>
                           calculate_months_between(start, later) = last.ret
            /\ (start = Date(2022, 1, 15) /\ last.end_date = Date(2022, 7, 15)
                    /\ DateLE(last.end_date, today)) => last.ret = 7
            /\ (start = Date(2022, 1, 15) /\ last.end_date = Date(2023, 1, 1)
                    /\ today = Date(2022, 3, 15)) => last.ret = 3

C2_Witness ==
    /\ MonthsCalled
    /\ last.start_date = Date(2022, 1, 15)
    /\ last.end_date = Date(2023, 1, 1)
    /\ today = Date(2022, 3, 15)
    /\ last.ret = 3

\* C3: calculate_months_between returns 0 whenever start_date is strictly
\* after today, for any end_date.
C3_FutureStartIsZero ==
    MonthsCalled /\ DateLT(today, last.start_date) => last.ret = 0

C3_Witness ==
    /\ MonthsCalled
    /\ today = Date(2022, 1, 1)
    /\ last.start_date = Date(2022, 3, 1)
    /\ last.end_date = Date(2022, 7, 15)
    /\ last.ret = 0

----------------------------------------------------------------------------
(* identify_missing_payment_periods called on its own *)

MissingStarts == DatesOn({1, 15, 29, 30, 31})

MonthlyRents == {1000, 1200}

\* payment dicts as generate_unit_balance_report builds them
PaymentSamples ==
    << [payment_date |-> Date(2022, 3, 1), amount |-> 1200],
       [payment_date |-> Date(2022, 12, 5), amount |-> 1],
       [payment_date |-> Date(2023, 2, 15), amount |-> 1000],
       [payment_date |-> Date(2023, 2, 20), amount |-> 1] >>

RECURSIVE SubSeq_(_, _)
SubSeq_(s, keep) ==
    IF s = <<>> THEN <<>>
    ELSE LET rest == SubSeq_(Tail(s), {i - 1 : i \in keep \ {1}})
         IN  IF 1 \in keep THEN <<Head(s)>> \o rest ELSE rest

PaymentLists == {SubSeq_(PaymentSamples, keep) : keep \in SUBSET (1..Len(PaymentSamples))}

InitMissing ==
    /\ InitRepos
    /\ today \in CalendarDates
    /\ last \in [op : {"missing_args"}, lease_start_date : MissingStarts,
                  monthly_rent : MonthlyRents, payments : PaymentLists]

CallMissingPeriods ==
    /\ last.op = "missing_args"
    /\ last' = [op |-> "identify_missing_payment_periods",
                lease_start_date |-> last.lease_start_date,
                monthly_rent |-> last.monthly_rent,
                payments |-> last.payments,
                ret |-> identify_missing_payment_periods(
                            last.lease_start_date, last.monthly_rent, last.payments)]
    /\ UNCHANGED <<today, repos, ops>>

SpecMissing == InitMissing /\ [][CallMissingPeriods]_vars

MissingCalled == last.op = "identify_missing_payment_periods"

MonthIndex(year, month) == year * 12 + month

PeriodMonths(periods) == {<<periods[i].year, periods[i].month>> : i \in 1..Len(periods)}

\* C4: with no payments and lease_start <= today the result has one entry for
\* each (year, month) from lease_start's month through today's month inclusive.
C4_EveryMonthThroughCurrent ==
    MissingCalled /\ DateLE(last.lease_start_date, today) /\ last.payments = <<>> =>
        LET first == MonthIndex(last.lease_start_date.year, last.lease_start_date.month)
            final == MonthIndex(today.year, today.month)
        IN  /\ PeriodMonths(last.ret) =
                   {ym \in Years \X (1..12) :
                       MonthIndex(ym[1], ym[2]) \in first..final}
            /\ Len(last.ret) = final - first + 1

EnglishMonth(month) ==
    CASE month = 1 -> "January" [] month = 2 -> "February" [] month = 3 -> "March"
      [] month = 4 -> "April" [] month = 5 -> "May" [] month = 6 -> "June"
      [] month = 7 -> "July" [] month = 8 -> "August" [] month = 9 -> "September"
      [] month = 10 -> "October" [] month = 11 -> "November" [] month = 12 -> "December"

\* C5: an enumerated month is reported as missing iff no payment of the input
\* is dated in that (year, month), whatever the amount; every reported period
\* has amount_due = monthly_rent and the English name of its month.
C5_MissingIffUnpaid ==
    MissingCalled =>
        LET enumerated == ExpectedMonths(last.lease_start_date, <<>>)
            pays == last.payments
        IN  /\ \A i \in 1..Len(enumerated) :
                   (enumerated[i] \in PeriodMonths(last.ret)) <=>
                       ~ \E k \in 1..Len(pays) :
                            /\ pays[k].payment_date.year = enumerated[i][1]
                            /\ pays[k].payment_date.month = enumerated[i][2]
            /\ PeriodMonths(last.ret) \subseteq SeqToSet(enumerated)
            /\ \A j \in 1..Len(last.ret) :
                   /\ last.ret[j].amount_due = last.monthly_rent
                   /\ last.ret[j].month_name = EnglishMonth(last.ret[j].month)

C5_Witness ==
    /\ MissingCalled
    /\ last.lease_start_date = Date(2023, 1, 1)
    /\ today = Date(2023, 3, 15)
    /\ last.monthly_rent = 1000
    /\ last.payments = <<[payment_date |-> Date(2023, 2, 20), amount |-> 1]>>
    /\ last.ret = << MissingPaymentPeriod(2023, 1, "January", 1000),
                     MissingPaymentPeriod(2023, 3, "March", 1000) >>

\* C6: the returned periods are in strictly increasing (year, month) order, so
\* no (year, month) occurs twice, for every lease start date.
C6_StrictlyChronological ==
    MissingCalled =>
        \A i, j \in 1..Len(last.ret) :
            i < j => MonthIndex(last.ret[i].year, last.ret[i].month)
                        < MonthIndex(last.ret[j].year, last.ret[j].month)

C6_Witness ==
    /\ MissingCalled
    /\ last.lease_start_date = Date(2022, 10, 31)
    /\ today = Date(2023, 3, 15)
    /\ last.payments = <<>>
    /\ PeriodMonths(last.ret) =
           {<<2022, 10>>, <<2022, 11>>, <<2022, 12>>, <<2023, 1>>, <<2023, 2>>, <<2023, 3>>}
    /\ Len(last.ret) = 6


----------------------------------------------------------------------------
(* The reports over the repositories *)

TenantReportCalled == last.op = "generate_tenant_balance_report"

UnitReportCalled == last.op = "generate_unit_balance_report"

PropertyReportCalled == last.op = "generate_property_balance_report"

TenantExists(tenant_id) == \E i \in 1..Len(tenants) : tenants[i].tenant_id = tenant_id

UnitExists(unit_id) == \E i \in 1..Len(units) : units[i].unit_id = unit_id

PropertyExists(property_id) == \E i \in 1..Len(properties) : properties[i].id = property_id

\* the last month of a lease's active span: the month of min(end_date, today)
SpanEnd(end_date) == IF DateLT(today, end_date) THEN today ELSE end_date

InActiveSpan(year, month, start_date, end_date) ==
    /\ MonthIndex(year, month) >= MonthIndex(start_date.year, start_date.month)
    /\ MonthIndex(year, month) <= MonthIndex(SpanEnd(end_date).year, SpanEnd(end_date).month)

MonthsInActiveSpan(start_date, end_date) ==
    Cardinality(MonthIndex(start_date.year, start_date.month)
                    .. MonthIndex(SpanEnd(end_date).year, SpanEnd(end_date).month))

\* C7: every missing period reported for a unit's lease lies within the
\* lease's active span: not before the month of lease.start_date and not after
\* the month of min(lease.end_date, today); the property report counts no more
\* missing periods for a unit than its lease's active span has months.
C7_MissingWithinActiveSpan ==
    /\ UnitReportCalled =>
           \/ last.ret = NotFound
           \/ last.ret.active_lease_id = None
           \/ \A i \in 1..Len(last.ret.missing_periods) :
                  InActiveSpan(last.ret.missing_periods[i].year,
                               last.ret.missing_periods[i].month,
                               last.ret.lease_start_date, last.ret.lease_end_date)
    /\ PropertyReportCalled =>
           \/ last.ret = NotFound
           \/ \A i \in 1..Len(last.ret.unit_balances) :
                  LET row == last.ret.unit_balances[i]
                      rows == SelectSeq(leases,
                                  LAMBDA l : l.unit_id = row.unit_id /\ l.status = "active")
                  IN  row.missing_payment_count > 0 =>
                          row.missing_payment_count <=
                              MonthsInActiveSpan(rows[1].start_date, rows[1].end_date)

\* C8: generate_tenant_balance_report(tenant_id) returns None if and only if
\* the tenant repository holds no tenant with that id; for a tenant it holds,
\* the result is a report whose tenant_id is the requested id.
C8_TenantNotFoundIffAbsent ==
    TenantReportCalled =>
        /\ (last.ret = NotFound) <=> ~TenantExists(last.id)
        /\ TenantExists(last.id) =>
               /\ last.ret.kind = "TenantBalanceReport"
               /\ last.ret.tenant_id = last.id

C8_Witness ==
    /\ TenantReportCalled
    /\ last.id = 1
    /\ ~TenantExists(1)
    /\ last.ret = NotFound

C10_LeaseSummaryArithmetic ==
    TenantReportCalled /\ last.ret # NotFound /\ last.ret.lease_summary # NotFound =>
        LET summary == last.ret.lease_summary
            lease == CHOOSE l \in SeqToSet(leases) : l.lease_id = summary.lease_id
            own_rent == SelectSeq(payments,
                            LAMBDA p : /\ p.tenant_id = last.id
                                       /\ p.lease_id = summary.lease_id
                                       /\ p.payment_type = "rent")
            paid == SumSeq([i \in 1..Len(own_rent) |-> own_rent[i].amount])
        IN  /\ \E l \in SeqToSet(leases) : l.lease_id = summary.lease_id
            /\ summary.rent_amount = lease.rent_amount
            /\ summary.months_active =
                   calculate_months_between(lease.start_date, lease.end_date)
            /\ summary.total_rent_due = lease.rent_amount * summary.months_active
            /\ summary.total_paid = paid
            /\ summary.balance = summary.total_rent_due - summary.total_paid
            /\ ( /\ lease.rent_amount = 1200
                 /\ lease.start_date = Date(2023, 1, 1)
                 /\ lease.end_date = Date(2024, 1, 1)
                 /\ today = Date(2023, 5, 10)
                 /\ paid = 1200 ) =>
                   /\ summary.months_active = 5
                   /\ summary.total_rent_due = 6000
                   /\ summary.balance = 4800

C10_Witness ==
    /\ TenantReportCalled
    /\ last.ret # NotFound
    /\ last.ret.lease_summary # NotFound
    /\ today = Date(2023, 5, 10)
    /\ last.ret.lease_summary.rent_amount = 1200
    /\ last.ret.lease_summary.start_date = Date(2023, 1, 1)
    /\ last.ret.lease_summary.end_date = Date(2024, 1, 1)
    /\ last.ret.lease_summary.months_active = 5
    /\ last.ret.lease_summary.total_rent_due = 6000
    /\ last.ret.lease_summary.total_paid = 1200
    /\ last.ret.lease_summary.balance = 4800


PaymentTypes ==
    {"rent", "security_deposit", "late_fee", "utility", "maintenance", "other"}

\* the payments a tenant made, on whatever lease
PaymentsOfTenant(tenant_id) == {i \in 1..Len(payments) : payments[i].tenant_id = tenant_id}

RECURSIVE SumOver(_, _)
\* the sum of amount[i] over the indexes i of a finite set
SumOver(indexes, amount) ==
    IF indexes = {} THEN 0
    ELSE LET i == CHOOSE k \in indexes : TRUE
         IN  amount[i] + SumOver(indexes \ {i}, amount)

PaidOfType(tenant_id, payment_type) ==
    SumOver({i \in PaymentsOfTenant(tenant_id) : payments[i].payment_type = payment_type},
            [i \in 1..Len(payments) |-> payments[i].amount])

\* C11: in every tenant report the payment_summary covers all payments of the
\* tenant, whatever their lease: count is the number of the tenant's payments,
\* each per-type amount is the sum of the tenant's payments of that type, and
\* total_amount is the sum of the six per-type amounts.
C11_PaymentSummaryAllLeases ==
    TenantReportCalled /\ last.ret # NotFound =>
        LET summary == last.ret.payment_summary
        IN  /\ summary.count = Cardinality(PaymentsOfTenant(last.id))
            /\ summary.rent_amount = PaidOfType(last.id, "rent")
            /\ summary.security_deposit_amount = PaidOfType(last.id, "security_deposit")
            /\ summary.late_fee_amount = PaidOfType(last.id, "late_fee")
            /\ summary.utility_amount = PaidOfType(last.id, "utility")
            /\ summary.maintenance_amount = PaidOfType(last.id, "maintenance")
            /\ summary.other_amount = PaidOfType(last.id, "other")
            /\ summary.total_amount =
                   summary.rent_amount + summary.security_deposit_amount
                       + summary.late_fee_amount + summary.utility_amount
                       + summary.maintenance_amount + summary.other_amount

\* a tenant whose payments lie on a lease they are no longer on, and are of two types
C11_Witness ==
    /\ TenantReportCalled
    /\ last.ret # NotFound
    /\ last.ret.lease_summary = NotFound
    /\ last.ret.payment_summary.count = 2
    /\ last.ret.payment_summary.rent_amount = 1200
    /\ last.ret.payment_summary.late_fee_amount = 50
    /\ last.ret.payment_summary.total_amount = 1250

\* the positions in the lease store of the active leases a tenant is on
ActiveLeasesOf(tenant_id) ==
    {i \in 1..Len(leases) :
        /\ leases[i].status = "active"
        /\ \E k \in 1..Len(lease_tenants) :
               /\ lease_tenants[k].lease_id = leases[i].lease_id
               /\ lease_tenants[k].tenant_id = tenant_id}

\* C12: a tenant report has a lease_summary if and only if the tenant is on at
\* least one lease with status active, and the summary is then that of the
\* first such lease in the order the leases are stored.
C12_SummaryOfFirstActiveLease ==
    TenantReportCalled /\ last.ret # NotFound =>
        LET active == ActiveLeasesOf(last.id)
            first == leases[CHOOSE i \in active : \A j \in active : i <= j]
        IN  /\ (last.ret.lease_summary # NotFound) <=> (active # {})
            /\ active # {} =>
                   /\ last.ret.lease_summary.lease_id = first.lease_id
                   /\ last.ret.lease_summary.rent_amount = first.rent_amount
                   /\ last.ret.lease_summary.start_date = first.start_date
                   /\ last.ret.lease_summary.end_date = first.end_date

\* a tenant on two leases, the earlier one not active
C12_Witness ==
    /\ TenantReportCalled
    /\ last.ret # NotFound
    /\ last.ret.lease_summary # NotFound
    /\ \E i \in 1..Len(leases) :
           /\ leases[i].status # "active"
           /\ leases[i].lease_id < last.ret.lease_summary.lease_id
           /\ \E k \in 1..Len(lease_tenants) :
                  /\ lease_tenants[k].lease_id = leases[i].lease_id
                  /\ lease_tenants[k].tenant_id = last.id


\* C13: for every unit of an existing property, the unit's row in
\* generate_property_balance_report agrees with generate_unit_balance_report
\* of that unit: same rent_amount, total_due, total_paid and balance, and
\* missing_payment_count equal to the number of missing_periods of the unit
\* report, has_missing_payments being true iff that number is positive.
C13_PropertyRowMatchesUnitReport ==
    PropertyReportCalled /\ last.ret # NotFound =>
        \A i \in 1..Len(last.ret.unit_balances) :
            LET row == last.ret.unit_balances[i]
                unit_report == generate_unit_balance_report(row.unit_id)
            IN  /\ unit_report # NotFound
                /\ row.rent_amount = unit_report.rent_amount
                /\ row.total_due = unit_report.total_due
                /\ row.total_paid = unit_report.total_paid
                /\ row.balance = unit_report.balance
                /\ row.missing_payment_count = Len(unit_report.missing_periods)
                /\ row.has_missing_payments <=> (Len(unit_report.missing_periods) > 0)


\* the position of a unit in the unit store
UnitPosition(unit_id) == CHOOSE i \in 1..Len(units) : units[i].unit_id = unit_id

\* C14: unit_balances of generate_property_balance_report holds exactly one
\* entry per unit of the property, ordered by balance descending; units with
\* equal balance keep the order unit_repository.get_by_property returned them in.
C14_UnitBalancesSortedStable ==
    PropertyReportCalled /\ last.ret # NotFound =>
        LET rows == last.ret.unit_balances
            owned == {i \in 1..Len(units) : units[i].property_id = last.id}
        IN  /\ Len(rows) = Cardinality(owned)
            /\ \A i \in owned : \E k \in 1..Len(rows) : rows[k].unit_id = units[i].unit_id
            /\ \A k \in 1..Len(rows) : \E i \in owned : rows[k].unit_id = units[i].unit_id
            /\ \A j, k \in 1..Len(rows) :
                   j < k =>
                       /\ rows[j].balance >= rows[k].balance
                       /\ rows[j].balance = rows[k].balance =>
                              UnitPosition(rows[j].unit_id) < UnitPosition(rows[k].unit_id)

\* three units: the second stored one owes most, the other two tie at 0
C14_Witness ==
    /\ PropertyReportCalled
    /\ last.ret # NotFound
    /\ Len(last.ret.unit_balances) = 3
    /\ last.ret.unit_balances[1].unit_id = 2
    /\ last.ret.unit_balances[1].balance > 0
    /\ last.ret.unit_balances[2].unit_id = 1
    /\ last.ret.unit_balances[3].unit_id = 4
    /\ last.ret.unit_balances[2].balance = last.ret.unit_balances[3].balance


\* C16: units_with_balance of generate_property_balance_report is the number of
\* entries of unit_balances whose balance is strictly greater than 0; a unit
\* with a zero balance or a credit (negative balance) is not counted.
C16_UnitsWithBalanceStrictlyPositive ==
    PropertyReportCalled /\ last.ret # NotFound =>
        LET rows == last.ret.unit_balances
        IN  last.ret.units_with_balance =
                Cardinality({k \in 1..Len(rows) : rows[k].balance > 0})

\* a property with a unit that owes, and a unit in credit that is not counted
C16_Witness ==
    /\ PropertyReportCalled
    /\ last.ret # NotFound
    /\ last.ret.units_with_balance = 1
    /\ \E k \in 1..Len(last.ret.unit_balances) : last.ret.unit_balances[k].balance < 0
    /\ \E k \in 1..Len(last.ret.unit_balances) : last.ret.unit_balances[k].balance > 0


ReportOps ==
    {"generate_tenant_balance_report", "generate_unit_balance_report",
     "generate_property_balance_report", "generate_property_report",
     "generate_all_properties_balance_report", "generate_balance_report"}

\* the report a builder computes from the repositories as they are
ReportOf(op, id) ==
    CASE op = "generate_tenant_balance_report" -> generate_tenant_balance_report(id)
      [] op = "generate_unit_balance_report" -> generate_unit_balance_report(id)
      [] op = "generate_property_balance_report" -> generate_property_balance_report(id)
      [] op = "generate_property_report" -> generate_property_report(id)
      [] op = "generate_all_properties_balance_report" ->
             generate_all_properties_balance_report
      [] op = "generate_balance_report" -> generate_balance_report(id[1], id[2])

\* the step is a unit report called right after payment_repository.create
\* stored a rent payment on the lease the report is about
ReportAfterRentPayment ==
    /\ last.op = "payment_create"
    /\ last.ret # NotFound
    /\ last.ret.payment_type = "rent"
    /\ last'.op = "generate_unit_balance_report"
    /\ last'.ret # NotFound
    /\ last'.ret.active_lease_id = last.ret.lease_id

\* total_paid of the unit's report before the payment was created: the rent
\* payments of the lease other than the created one
PaidBeforeCreate ==
    SumOver({i \in 1..Len(payments) :
                /\ payments[i].lease_id = last.ret.lease_id
                /\ payments[i].payment_type = "rent"
                /\ payments[i].payment_id # last.ret.payment_id},
            [i \in 1..Len(payments) |-> payments[i].amount])

\* C20: reports are never stale: a report call returns the report computed
\* from the repositories as they are at that call, after whatever creates,
\* updates and deletes; once payment_repository.create has stored a rent
\* payment of amount a on the first active lease of a unit, the next report of
\* the unit has total_paid higher by a and balance lower by a than before the
\* create.
C20_ReportsNeverStale ==
    [][ /\ last'.op \in {"generate_tenant_balance_report",
                         "generate_unit_balance_report",
                         "generate_property_balance_report"} =>
               /\ UNCHANGED <<today, repos>>
               /\ last'.ret = ReportOf(last'.op, last'.id)
        /\ ReportAfterRentPayment =>
               /\ last'.ret.total_paid = PaidBeforeCreate + last.ret.amount
               /\ last'.ret.balance =
                      last'.ret.total_due - PaidBeforeCreate - last.ret.amount
      ]_vars

\* the report of unit 1 after a rent payment of 500 was created on its lease
C20_Witness ==
    /\ UnitReportCalled
    /\ last.id = 1
    /\ last.ret # NotFound
    /\ \E i \in 1..Len(payments) :
           /\ payments[i].payment_id > Len(InitPayments)
           /\ payments[i].payment_type = "rent"
           /\ payments[i].amount = 500
           /\ payments[i].lease_id = last.ret.active_lease_id
    /\ last.ret.total_paid = 1700

AllPropertiesReportCalled == last.op = "generate_all_properties_balance_report"

\* the sum of a field of generate_property_balance_report over all properties
SumOfPropertyReports(field) ==
    SumOver(1..Len(properties),
            [i \in 1..Len(properties) |->
                generate_property_balance_report(properties[i].id)[field]])

\* C17: generate_all_properties_balance_report returns a report in every
\* repository state, zero properties included; property_count is the number of
\* properties and the length of property_summaries; total_units,
\* occupied_units, total_due and total_paid are the sums of unit_count,
\* occupied_units, total_due and total_paid of generate_property_balance_report
\* over all properties; total_balance = total_due - total_paid.
C17_AllPropertiesRollUp ==
    AllPropertiesReportCalled =>
        /\ last.ret # NotFound
        /\ last.ret.kind = "AllPropertiesBalanceReport"
        /\ last.ret.property_count = Len(properties)
        /\ last.ret.property_count = Len(last.ret.property_summaries)
        /\ last.ret.total_units = SumOfPropertyReports("unit_count")
        /\ last.ret.occupied_units = SumOfPropertyReports("occupied_units")
        /\ last.ret.total_due = SumOfPropertyReports("total_due")
        /\ last.ret.total_paid = SumOfPropertyReports("total_paid")
        /\ last.ret.total_balance = last.ret.total_due - last.ret.total_paid

\* the report of a repository without properties
C17_Witness ==
    /\ AllPropertiesReportCalled
    /\ properties = <<>>
    /\ last.ret.kind = "AllPropertiesBalanceReport"
    /\ last.ret.property_count = 0
    /\ last.ret.property_summaries = <<>>
    /\ last.ret.total_units = 0
    /\ last.ret.total_balance = 0

BalanceReportCalled == last.op = "generate_balance_report"

\* C18: generate_balance_report(property_id, unit_id) with a unit_id given, of
\* any integer value, returns exactly generate_unit_balance_report(unit_id)
\* whatever the property_id; with only a property_id given it returns
\* generate_property_balance_report(property_id); the all-properties report
\* comes back only when neither id is given.
C18_DispatchByGivenId ==
    BalanceReportCalled =>
        LET property_id == last.id[1]
            unit_id == last.id[2]
        IN  /\ unit_id # None => last.ret = generate_unit_balance_report(unit_id)
            /\ unit_id = None /\ property_id # None =>
                   last.ret = generate_property_balance_report(property_id)
            /\ last.ret.kind = "AllPropertiesBalanceReport" =>
                   unit_id = None /\ property_id = None

----------------------------------------------------------------------------
(* The sort of the property summaries called on its own *)

MaxSummaries == 3

\* what a summary may hold under "balance"; Absent is a summary without the key
Absent == [t |-> "absent"]

BalanceValues ==
    {PyFloat(-100), PyFloat(0), PyFloat(250), PyFloat(500),
     PyNone, PyStr("n/a"), PyStr("250.0"), PyList, Absent}

\* the summary of the i-th property, holding value under "balance"
SummaryWith(i, value) ==
    IF value = Absent THEN [property_id |-> i]
    ELSE [property_id |-> i, balance |-> value]

InitSort ==
    /\ InitRepos
    /\ today \in Todays
    /\ \E n \in 0..MaxSummaries :
           last \in [op : {"sort_args"}, balances : [1..n -> BalanceValues]]

CallSortSummaries ==
    /\ last.op = "sort_args"
    /\ LET property_summaries ==
               [i \in 1..Len(last.balances) |-> SummaryWith(i, last.balances[i])]
       IN  last' = [op |-> "sort_summaries",
                    balances |-> last.balances,
                    ret |-> SortSummariesDesc(property_summaries)]
    /\ UNCHANGED <<today, repos, ops>>

SpecSort == InitSort /\ [][CallSortSummaries]_vars

SortCalled == last.op = "sort_summaries"

\* the balance a summary is ordered by: 0 when it is missing or not a number
BalanceOrZero(value) ==
    CASE value.t = "float" -> value.v
      [] value = PyStr("250.0") -> 250
      [] OTHER -> 0

\* C15: property_summaries is ordered by balance descending, a summary whose
\* balance is missing or non-numeric is ordered as if its balance were 0.0, and
\* summaries with equal balance keep the order they were appended in (the
\* order of property_repository.get_all).
C15_SummariesSortedStable ==
    SortCalled =>
        LET given == last.balances
            sorted == last.ret
        IN  /\ Len(sorted) = Len(given)
            /\ \A i \in 1..Len(given) :
                   \E k \in 1..Len(sorted) : sorted[k] = SummaryWith(i, given[i])
            /\ \A j, k \in 1..Len(sorted) :
                   j < k =>
                       LET first == BalanceOrZero(given[sorted[j].property_id])
                           second == BalanceOrZero(given[sorted[k].property_id])
                       IN  /\ first >= second
                           /\ first = second =>
                                  sorted[j].property_id < sorted[k].property_id

\* a credit, a summary without balance and a debt: the debt first, the credit last
C15_Witness ==
    /\ SortCalled
    /\ last.balances = <<PyFloat(-100), Absent, PyFloat(500)>>
    /\ last.ret = <<SummaryWith(3, PyFloat(500)), SummaryWith(2, Absent),
                    SummaryWith(1, PyFloat(-100))>>

----------------------------------------------------------------------------
(* Occupancy in the unit report *)

\* the positions of the stored tenants of a unit whose status is active
ActiveTenantsAt(unit_id) ==
    {i \in 1..Len(tenants) : tenants[i].unit_id = unit_id /\ tenants[i].status = "active"}

\* C21: a unit report says "occupied" exactly when the unit has a tenant whose
\* status is active, "vacant" otherwise, and its tenants list holds exactly the
\* unit's active tenants.
C21_OccupiedIffActiveTenant ==
    UnitReportCalled /\ last.ret # NotFound =>
        LET active == ActiveTenantsAt(last.id)
            listed == last.ret.tenants
        IN  /\ last.ret.status = IF active # {} THEN "occupied" ELSE "vacant"
            /\ Len(listed) = Cardinality(active)
            /\ {listed[k].tenant_id : k \in 1..Len(listed)} =
                   {tenants[i].tenant_id : i \in active}
            /\ \A k \in 1..Len(listed) : listed[k].status = "active"

\* a unit with an active and a former tenant is reported occupied by the one
C21_Witness ==
    /\ UnitReportCalled
    /\ last.ret # NotFound
    /\ last.ret.status = "occupied"
    /\ \E i \in 1..Len(tenants) :
           tenants[i].unit_id = last.id /\ tenants[i].status = "former"
    /\ Len(last.ret.tenants) = 1

\* a unit whose only tenant is a former one is reported vacant
C21_WitnessVacant ==
    /\ UnitReportCalled
    /\ last.ret # NotFound
    /\ last.ret.status = "vacant"
    /\ \E i \in 1..Len(tenants) : tenants[i].unit_id = last.id
----------------------------------------------------------------------------
(* The property financial summary *)

PropertyFinancialCalled == last.op = "generate_property_report"

\* the positions of the stored leases of a unit whose status is active
ActiveLeasesAt(unit_id) ==
    {i \in 1..Len(leases) : leases[i].unit_id = unit_id /\ leases[i].status = "active"}

\* rent_amount * months_active of each stored lease
RentDueOfLeases ==
    [i \in 1..Len(leases) |->
        leases[i].rent_amount
            * calculate_months_between(leases[i].start_date, leases[i].end_date)]

\* the sum of the rent-type payments recorded against each stored lease
RentPaidOfLeases ==
    [i \in 1..Len(leases) |->
        SumOver({p \in 1..Len(payments) :
                    /\ payments[p].lease_id = leases[i].lease_id
                    /\ payments[p].payment_type = "rent"},
                [p \in 1..Len(payments) |-> payments[p].amount])]

\* C22: generate_property_report returns None for a property that does not
\* exist; otherwise it has one summary per unit of the property, a unit without
\* an active tenant has occupied false and rent_due = rent_paid = balance = 0,
\* an occupied unit's rent_due and rent_paid are the sums over all its active
\* leases of rent_amount * months_active and of the lease's rent payments, the
\* property's total_rent_due and total_paid are the sums of the unit summaries'
\* rent_due and rent_paid, and total_balance = total_rent_due - total_paid.
C22_PropertyFinancialSummary ==
    PropertyFinancialCalled =>
        IF ~PropertyExists(last.id) THEN last.ret = NotFound
        ELSE
        /\ last.ret # NotFound
        /\ LET sums == last.ret.unit_summaries
               at == {i \in 1..Len(units) : units[i].property_id = last.id}
           IN  /\ Len(sums) = Cardinality(at)
               /\ {sums[k].unit_id : k \in 1..Len(sums)} = {units[i].unit_id : i \in at}
               /\ \A k \in 1..Len(sums) :
                      LET active == ActiveLeasesAt(sums[k].unit_id)
                      IN  IF ActiveTenantsAt(sums[k].unit_id) = {}
                          THEN /\ ~sums[k].occupied
                               /\ sums[k].rent_due = 0
                               /\ sums[k].rent_paid = 0
                               /\ sums[k].balance = 0
                          ELSE /\ sums[k].occupied
                               /\ sums[k].rent_due = SumOver(active, RentDueOfLeases)
                               /\ sums[k].rent_paid = SumOver(active, RentPaidOfLeases)
               /\ last.ret.total_rent_due =
                      SumOver(1..Len(sums), [k \in 1..Len(sums) |-> sums[k].rent_due])
               /\ last.ret.total_paid =
                      SumOver(1..Len(sums), [k \in 1..Len(sums) |-> sums[k].rent_paid])
               /\ last.ret.total_balance = last.ret.total_rent_due - last.ret.total_paid

\* the summary of a property with an occupied unit under two active leases, both
\* with rent due, and a unit without an active tenant
C22_Witness ==
    /\ PropertyFinancialCalled
    /\ last.ret # NotFound
    /\ \E k \in 1..Len(last.ret.unit_summaries) :
           /\ last.ret.unit_summaries[k].occupied
           /\ \E i, j \in ActiveLeasesAt(last.ret.unit_summaries[k].unit_id) :
                  i # j /\ RentDueOfLeases[i] > 0 /\ RentDueOfLeases[j] > 0
    /\ \E k \in 1..Len(last.ret.unit_summaries) : ~last.ret.unit_summaries[k].occupied
    /\ last.ret.total_rent_due > 0

\* the summary asked of a property that is not stored
C22_WitnessNotFound ==
    /\ PropertyFinancialCalled
    /\ ~PropertyExists(last.id)
    /\ last.ret = NotFound
----------------------------------------------------------------------------
(* Referential integrity of the repositories *)

LeaseExists(lease_id) == \E i \in 1..Len(leases) : leases[i].lease_id = lease_id

\* C23: in every state the repository operations reach, every tenant id among
\* the tenant_ids of a stored lease is the id of a stored tenant.
C23_LeaseTenantsExist ==
    \A i \in 1..Len(leases), k \in 1..Len(lease_tenants) :
        lease_tenants[k].lease_id = leases[i].lease_id =>
            TenantExists(lease_tenants[k].tenant_id)

\* C24: in every state the repository operations reach, the unit_id of every
\* stored lease is the id of a stored unit whose property_id is the lease's
\* property_id, and that property is stored.
C24_LeasePlaceExists ==
    \A i \in 1..Len(leases) :
        /\ PropertyExists(leases[i].property_id)
        /\ \E u \in 1..Len(units) :
               /\ units[u].unit_id = leases[i].unit_id
               /\ units[u].property_id = leases[i].property_id

\* C26: in every state the repository operations reach, the lease_id of every
\* stored payment is the id of a stored lease, its tenant_id is the id of a
\* stored tenant, and that tenant is on that lease.
C26_PaymentPartiesExist ==
    \A p \in 1..Len(payments) :
        /\ LeaseExists(payments[p].lease_id)
        /\ TenantExists(payments[p].tenant_id)
        /\ \E k \in 1..Len(lease_tenants) :
               /\ lease_tenants[k].lease_id = payments[p].lease_id
               /\ lease_tenants[k].tenant_id = payments[p].tenant_id
----------------------------------------------------------------------------
(* Create, get_by_id and delete of each repository *)

RepositoryNames == {"property", "unit", "tenant", "lease", "payment"}

CreateOp(name) ==
    CASE name = "property" -> "property_create"
      [] name = "unit" -> "unit_create"
      [] name = "tenant" -> "tenant_create"
      [] name = "lease" -> "lease_create"
      [] name = "payment" -> "payment_create"

DeleteOp(name) ==
    CASE name = "property" -> "property_delete"
      [] name = "unit" -> "unit_delete"
      [] name = "tenant" -> "tenant_delete"
      [] name = "lease" -> "lease_delete"
      [] name = "payment" -> "payment_delete"

\* get_by_id of the named repository
GetById(name, id) ==
    CASE name = "property" -> property_get_by_id(id)
      [] name = "unit" -> unit_get_by_id(id)
      [] name = "tenant" -> tenant_get_by_id(id)
      [] name = "lease" -> lease_get_by_id(id)
      [] name = "payment" -> payment_get_by_id(id)

\* the ids the named repository stores
StoredIds(name) ==
    CASE name = "property" -> {properties[i].id : i \in 1..Len(properties)}
      [] name = "unit" -> {units[i].unit_id : i \in 1..Len(units)}
      [] name = "tenant" -> {tenants[i].tenant_id : i \in 1..Len(tenants)}
      [] name = "lease" -> {leases[i].lease_id : i \in 1..Len(leases)}
      [] name = "payment" -> {payments[i].payment_id : i \in 1..Len(payments)}

\* the ids a call can name or return
CallIds == None .. (4 + MaxOps)

\* one step of a behaviour, seen from the named repository
CreateGetDeleteStep(name) ==
    \A id \in CallIds :
        /\ last'.op = CreateOp(name) /\ last'.id = id =>
               (last'.ret # NotFound => GetById(name, id)' = last'.ret)
        /\ last'.op = DeleteOp(name) /\ last'.id = id =>
               IF id \in StoredIds(name)
               THEN last'.ret = TRUE /\ GetById(name, id)' = NotFound
               ELSE last'.ret = FALSE /\ UNCHANGED repos
        /\ id \in StoredIds(name)' \ StoredIds(name) =>
               last'.op = CreateOp(name) /\ last'.id = id

\* C25: in each repository a create that succeeds returns the record get_by_id
\* then returns under the returned id; after a delete that returned True,
\* get_by_id of the id returns None, and an id that is not stored becomes
\* stored only by a create that returns it; a delete of an id that is not
\* stored returns False and leaves the repositories unchanged.
C25_CreateGetDelete == [][\A name \in RepositoryNames : CreateGetDeleteStep(name)]_vars

\* a create that allocates again the id a delete has freed
C25_Witness ==
    /\ last.op = "property_create"
    /\ last.id = 2
    /\ ops = 2
    /\ Len(properties) = 2
    /\ property_get_by_id(2) = last.ret

\* a delete of an id that is not stored
C25_WitnessNotStored ==
    /\ last.op = "lease_delete"
    /\ ~LeaseExists(last.id)
    /\ last.ret = FALSE
----------------------------------------------------------------------------
(* Failed lease writes *)

\* C27: whenever LeaseRepository.create or LeaseRepository.update returns
\* None, the stored leases and the lease_tenants rows are what they were before
\* the call.
C27_FailedLeaseWriteChangesNothing ==
    [][last'.op \in {"lease_create", "lease_update"} =>
           (last'.ret = NotFound => UNCHANGED <<leases, lease_tenants>>)]_vars
----------------------------------------------------------------------------
(* Consistency of the property balance report *)

\* C28: in every property balance report unit_count is the length of
\* unit_balances, occupied_units <= unit_count, units_with_balance <=
\* occupied_units, total_due and total_paid are the sums of the rows' total_due
\* and total_paid, total_balance = total_due - total_paid = the sum of the rows'
\* balances, and every row that is not occupied has total_due = total_paid =
\* balance = 0.
C28_PropertyBalanceReportConsistent ==
    PropertyReportCalled /\ last.ret # NotFound =>
        LET rows == last.ret.unit_balances
            at == 1..Len(rows)
        IN  /\ last.ret.unit_count = Len(rows)
            /\ last.ret.occupied_units <= last.ret.unit_count
            /\ last.ret.units_with_balance <= last.ret.occupied_units
            /\ last.ret.total_due = SumOver(at, [k \in at |-> rows[k].total_due])
            /\ last.ret.total_paid = SumOver(at, [k \in at |-> rows[k].total_paid])
            /\ last.ret.total_balance = last.ret.total_due - last.ret.total_paid
            /\ last.ret.total_balance = SumOver(at, [k \in at |-> rows[k].balance])
            /\ \A k \in at :
                   ~rows[k].occupied =>
                       rows[k].total_due = 0 /\ rows[k].total_paid = 0 /\ rows[k].balance = 0

\* the report of a property with an occupied unit that owes rent and a unit
\* that has an active lease but no active tenant
C28_Witness ==
    /\ PropertyReportCalled
    /\ last.ret # NotFound
    /\ last.ret.units_with_balance > 0
    /\ last.ret.occupied_units < last.ret.unit_count
    /\ \E k \in 1..Len(last.ret.unit_balances) :
           /\ ~last.ret.unit_balances[k].occupied
           /\ ActiveLeasesAt(last.ret.unit_balances[k].unit_id) # {}
----------------------------------------------------------------------------
(* Ids of the stored records *)

\* the writes a behaviour of SpecRepos may perform
MaxRepoOps == 3

\* the repositories after construction; the count of writes starts below zero
\* so that MaxRepoOps writes pass the guard ops < MaxOps
InitRepoCalls ==
    /\ properties = InitProperties
    /\ units = InitUnits
    /\ tenants = InitTenants
    /\ leases = InitLeases
    /\ lease_tenants = InitLeaseTenants
    /\ payments = InitPayments
    /\ ops = MaxOps - MaxRepoOps
    /\ today = Date(2023, 5, 10)
    /\ last = [op |-> "init"]

SpecRepos == InitRepoCalls /\ [][Writes]_vars

UpdateOp(name) ==
    CASE name = "property" -> "property_update"
      [] name = "unit" -> "unit_update"
      [] name = "tenant" -> "tenant_update"
      [] name = "lease" -> "lease_update"
      [] name = "payment" -> "payment_update"

\* the ids of the named repository's rows, in stored order
IdsAt(name) ==
    CASE name = "property" -> [i \in 1..Len(properties) |-> properties[i].id]
      [] name = "unit" -> [i \in 1..Len(units) |-> units[i].unit_id]
      [] name = "tenant" -> [i \in 1..Len(tenants) |-> tenants[i].tenant_id]
      [] name = "lease" -> [i \in 1..Len(leases) |-> leases[i].lease_id]
      [] name = "payment" -> [i \in 1..Len(payments) |-> payments[i].payment_id]

\* no two rows of a repository share an id, and every junction row names a
\* stored lease
IdsUnique ==
    /\ \A name \in RepositoryNames :
           \A i, j \in 1..Len(IdsAt(name)) : i # j => IdsAt(name)[i] # IdsAt(name)[j]
    /\ \A k \in 1..Len(lease_tenants) : LeaseExists(lease_tenants[k].lease_id)

\* max(stored ids) + 1, or 1 for an empty repository
NextIdOf(name) ==
    IF StoredIds(name) = {} THEN 1
    ELSE 1 + (CHOOSE x \in StoredIds(name) : \A y \in StoredIds(name) : y <= x)

IdsStep(name) ==
    /\ last'.op = CreateOp(name) =>
           (last'.ret # NotFound =>
               /\ last'.id = NextIdOf(name)
               /\ IdsAt(name)' = Append(IdsAt(name), NextIdOf(name)))
    /\ last'.op = UpdateOp(name) => IdsAt(name)' = IdsAt(name)

\* C29: in every reachable state no two stored records of a repository share an
\* id and every lease_tenants row refers to a stored lease; a create assigns
\* max(stored ids) + 1, or 1 when the repository is empty, and an update leaves
\* the id of every record as it was.
C29_IdsUniqueAndAssigned ==
    []IdsUnique /\ [][\A name \in RepositoryNames : IdsStep(name)]_vars

\* a create into a repository that deletes have emptied
C29_Witness ==
    /\ last.op = "property_create"
    /\ last.id = 1
    /\ properties = <<last.ret>>

\* a create after the delete of a row that is not the last: max + 1, not count + 1
C29_WitnessGap ==
    /\ last.op = "payment_create"
    /\ last.id = 4
    /\ Len(payments) = 3

\* an update that replaces a stored lease and its junction rows
C29_WitnessUpdate ==
    /\ last.op = "lease_update"
    /\ last.ret # NotFound
    /\ Len(get_lease_tenants(last.id)) = 2
----------------------------------------------------------------------------
(* Missing periods against months_active, over lease start dates and todays *)

\* lease 1 of the sample data with another start date, ending after every today
LeaseDateInputs ==
    {[property_id |-> 1, unit_id |-> 1, rent_amount |-> 1200,
      start_date |-> start_date, end_date |-> Date(FirstYear + NumYears, 1, 1),
      status |-> "active"] : start_date \in MissingStarts}

InitLeaseDates ==
    /\ InitRepos
    /\ today \in CalendarDates
    /\ last = [op |-> "init"]

NextLeaseDates ==
    \/ PaymentDelete(1)
    \/ \E lease_data \in LeaseDateInputs : LeaseUpdateData(1, lease_data)
    \/ PropertyBalanceReport(1)

SpecLeaseDates == InitLeaseDates /\ [][NextLeaseDates]_vars

\* the stored position of the first active lease of a unit that has one
FirstActiveLeaseAt(unit_id) ==
    CHOOSE i \in ActiveLeasesAt(unit_id) : \A j \in ActiveLeasesAt(unit_id) : i <= j

RentPaymentsOf(lease_id) ==
    {p \in 1..Len(payments) :
        payments[p].lease_id = lease_id /\ payments[p].payment_type = "rent"}

\* C30: in a property balance report, the row of an occupied unit whose first
\* active lease has start_date <= today <= end_date and no rent payment has
\* missing_payment_count = months_active, that is missing_payment_count *
\* rent_amount = total_due.
C30_MissingCountIsMonthsActive ==
    PropertyReportCalled /\ last.ret # NotFound =>
        \A k \in 1..Len(last.ret.unit_balances) :
            LET row == last.ret.unit_balances[k]
            IN  row.occupied /\ ActiveLeasesAt(row.unit_id) # {} =>
                    LET lease == leases[FirstActiveLeaseAt(row.unit_id)]
                    IN  /\ DateLE(lease.start_date, today)
                        /\ DateLE(today, lease.end_date)
                        /\ RentPaymentsOf(lease.lease_id) = {}
                        => /\ row.missing_payment_count =
                                  calculate_months_between(lease.start_date, lease.end_date)
                           /\ row.missing_payment_count * lease.rent_amount = row.total_due
============================================================================
